---- MODULE Spec2Model ----
(***************************************************************************)
(* A model of src/protocol/connection.rs of fred.rs: the request/response  *)
(* primitive, the two-step authenticator, the connection factory (plain    *)
(* and TLS), cluster discovery over the configured seed nodes, and the     *)
(* command dispatcher (write_command) with its flush/feed decision.        *)
(*                                                                         *)
(* Every await of the source is a step of its own; what the network, the   *)
(* resolver and the frame codec answer is chosen by the environment.       *)
(***************************************************************************)
EXTENDS Integers, Sequences, FiniteSets, TLC

\* ------------------------------------------------------------------ bounds

\* The longest configured seed list.
MaxSeeds == 3

\* The seed hosts, in the order a configuration lists them.
HostNames == <<"A", "B", "C", "D", "E">>

\* ------------------------------------------------------------------ frames

\* The contents of a simplestring OK response.
OK == "OK"

\* Reply texts: OK, a rejection, and two texts that parse as a topology.
Texts == {OK, "WRONGPASS", "nodes-a", "nodes-b"}

SimpleString(t) == [type |-> "SimpleString", val |-> t]

NullFrame == [type |-> "Null", val |-> ""]

\* What a server can answer: every frame shape of the protocol.
Frames ==
  [type : {"SimpleString", "Error", "BulkString"}, val : Texts]
    \cup {[type |-> "BulkString", val |-> "<non-utf8>"],
          [type |-> "Integer", val |-> "1"],
          [type |-> "Array", val |-> "[]"],
          NullFrame}

NoFrame == [type |-> "none", val |-> ""]

\* Frame::is_error of the codec collaborator.
IsError(f) == f.type = "Error"

\* Frame::to_string: Some(text) for a textual frame, None otherwise.
to_string(f) ==
  IF f.type = "SimpleString" \/ (f.type = "BulkString" /\ f.val \in Texts)
    THEN f.val
    ELSE "None"

\* ClusterKeyCache::new(Some(text)): the cache parsed from the text, or an error.
ParseCache(text) ==
  IF text \in {"nodes-a", "nodes-b"} THEN [nodes |-> text] ELSE [nodes |-> "Err"]

\* ------------------------------------------------------------------ errors

NoErr == [kind |-> "none", msg |-> <<>>]

RedisError(kind, msg) == [kind |-> kind, msg |-> msg]

\* The error read_cluster_nodes ends with when no seed answered.
UnreachableError ==
  RedisError("Unknown",
             <<"Could not read cluster state from any known node in the cluster.">>)

\* ------------------------------------------------------------------ state

VARIABLES
  key,          \* the configured credential: "None" or the secret
  tls_feature,  \* whether the build has the enable-tls feature
  known_nodes,  \* the configured seed hosts, in order
  state,        \* the client's connection-state flag
  state0,       \* the flag as it was before the caller's call
  top,          \* the entry point the caller invoked: none, cac, rcn
  pc,           \* where the setup sequence stands
  variant,      \* which connection function runs: tcp or tls
  uses_tls,     \* the configuration asks for TLS: config.tls().is_some()
  idx,          \* read_cluster_nodes: position in known_nodes
  rr,           \* the command request_response is running for
  transport,    \* owner of the unsplit transport: none, setup, caller, dropped
  live,         \* connections opened by the setup sequence and not yet dropped
  wire,         \* what happened on the current transport, in order
  response,     \* the last frame request_response returned
  steps,        \* result of each setup step of the current connection
  cacRes,       \* result of the connection function: none, Ok, or an error
  ret,          \* what the entry point returned to the caller
  tried,        \* hosts handed to the resolver, in order
  resolves,     \* per seed: resolve calls
  connects,     \* per seed: connection attempts
  queries,      \* per seed: CLUSTER NODES requests
  outcome,      \* per seed: none, failed, or the cache it produced
  stateSets,    \* calls of set_client_state so far
  feed_count,   \* Counters: commands fed since the last flush
  in_flight,    \* Counters: commands sent whose reply is pending
  sinkBuf,      \* the sink's buffer: frames written and not yet flushed
  net,          \* frames flushed onto the network, in order
  command,      \* the SentCommand write_command is (or was last) given
  wpc,          \* where write_command stands: idle, send, feed, sent, fed, ret
  should_send,  \* what counters.should_send() answered in this call
  should_flush, \* the branch this call decided on
  pre,          \* the command and the counters as they were at the call
  sinkRes,      \* how the sink's send or feed of this call ended
  wret,         \* what write_command returned
  calls,        \* calls of write_command so far
  failed,       \* whether a call of write_command has returned an error
  observed      \* replies the response consumer has observed

setupVars ==
  <<key, tls_feature, known_nodes, state, state0, top, pc, variant, uses_tls, idx, rr,
    transport, live, wire, response, steps, cacRes, ret, tried, resolves,
    connects, queries, outcome, stateSets>>

writeVars ==
  <<feed_count, in_flight, sinkBuf, net, command, wpc, should_send, should_flush,
    pre, sinkRes, wret, calls, failed, observed>>

vars == <<setupVars, writeVars>>

NoSteps ==
  [socket |-> "none", tls |-> "none", auth |-> "none", name |-> "none",
   flag |-> "none"]

NoRet == [tag |-> "none", err |-> NoErr, cache |-> [nodes |-> "none"]]

RetOk(v) == [tag |-> "Ok", err |-> NoErr, cache |-> v]

RetErr(e) == [tag |-> "Err", err |-> e, cache |-> [nodes |-> "none"]]

Seeds == 1 .. Len(known_nodes)

NoCommand ==
  [id |-> 0, kind |-> "none", attempted |-> 0, network_start |-> "None",
   resp_tx |-> "None", convertible |-> TRUE]

NoCounters == [feed_count |-> 0, in_flight |-> 0]

\* A connection on which nothing was written yet.
WriteInit ==
  /\ feed_count = 0
  /\ in_flight = 0
  /\ sinkBuf = <<>>
  /\ net = <<>>
  /\ command = NoCommand
  /\ wpc = "idle"
  /\ should_send = FALSE
  /\ should_flush = FALSE
  /\ pre = [command |-> NoCommand, counters |-> NoCounters]
  /\ sinkRes = "none"
  /\ wret = NoErr
  /\ calls = 0
  /\ failed = FALSE
  /\ observed = 0

SetupInit ==
  /\ key \in {"None", "secret"}
  /\ tls_feature \in BOOLEAN
  /\ known_nodes \in {SubSeq(HostNames, 1, n) : n \in 0 .. MaxSeeds}
  /\ state \in {"Disconnected", "Connecting", "Connected"}
  /\ state0 = state
  /\ top = "none"
  /\ pc = "idle"
  /\ variant = "tcp"
  /\ uses_tls \in BOOLEAN
  /\ idx = 0
  /\ rr = "none"
  /\ transport = "none"
  /\ live = 0
  /\ wire = <<>>
  /\ response = NoFrame
  /\ steps = NoSteps
  /\ cacRes = NoRet
  /\ ret = NoRet
  /\ tried = <<>>
  /\ resolves = [i \in Seeds |-> 0]
  /\ connects = [i \in Seeds |-> 0]
  /\ queries = [i \in Seeds |-> 0]
  /\ outcome = [i \in Seeds |-> [nodes |-> "none"]]
  /\ stateSets = 0

Init == SetupInit /\ WriteInit

cfg == <<key, tls_feature, known_nodes, uses_tls, state0>>

hist == <<tried, resolves, connects, queries, outcome>>

Event(ev, cmd, f) == [ev |-> ev, cmd |-> cmd, frame |-> f]

\* ------------------------------------------------------ pure functions

\* AuthCheck reporting a rejected credential as a protocol error.
AuthCheckProtocol(f) ==
  IF f.type = "SimpleString" /\ f.val = OK
    THEN NoErr
    ELSE RedisError("ProtocolError", <<"Invalid auth response", f.type, f.val>>)

\* authenticate, credential step: what the reply to AUTH leads to
\* (NoErr: go on to the naming step).
AuthCheck(f) ==
  IF f.type = "SimpleString"
    THEN IF f.val = OK THEN NoErr ELSE RedisError("Auth", <<f.val>>)
    ELSE RedisError("ProtocolError", <<"Invalid auth response", f.type, f.val>>)

\* NameCheck reporting a refused name as an Auth error.
NameCheckAuthKind(f) ==
  IF f.type = "SimpleString"
    THEN IF f.val = OK THEN NoErr ELSE RedisError("Auth", <<f.val>>)
    ELSE RedisError("ProtocolError", <<"Failed to set client name", f.type, f.val>>)

\* NameCheck accepting any simple string.
NameCheckAnyString(f) ==
  IF f.type = "SimpleString"
    THEN NoErr
    ELSE RedisError("ProtocolError", <<"Failed to set client name", f.type, f.val>>)

\* authenticate, naming step: what the reply to CLIENT SETNAME leads to.
NameCheck(f) ==
  IF f.type = "SimpleString"
    THEN IF f.val = OK THEN NoErr ELSE RedisError("ProtocolError", <<f.val>>)
    ELSE RedisError("ProtocolError", <<"Failed to set client name", f.type, f.val>>)

\* read_cluster_state, after the round trip: the cache, or None.
ClusterState(f) ==
  IF IsError(f)
    THEN [nodes |-> "None"]
    ELSE IF to_string(f) = "None"
      THEN [nodes |-> "None"]
      ELSE IF ParseCache(to_string(f)).nodes = "Err"
        THEN [nodes |-> "None"]
        ELSE ParseCache(to_string(f))

\* The connection function a call of the TLS entry point runs: without the
\* enable-tls feature it is the plain one.
VariantOf(wantTls) == IF wantTls /\ tls_feature THEN "tls" ELSE "tcp"

\* ------------------------------------------------------ connection setup

\* The caller invokes create_authenticated_connection(_tls).
CallCreate ==
  /\ UNCHANGED writeVars
  /\ top = "none"
  /\ pc = "idle"
  /\ \E wantTls \in BOOLEAN : variant' = VariantOf(wantTls)
  /\ top' = "cac"
  /\ pc' = "connect"
  /\ UNCHANGED <<cfg, hist, state, idx, rr, transport, live, wire, response, steps,
                 cacRes, ret, stateSets>>

\* SetupFail handing the transport to the caller along with the error.
SetupFailKeeps(step, e) ==
  /\ steps' = [steps EXCEPT ![step] = "fail"]
  /\ cacRes' = RetErr(e)
  /\ transport' = IF transport = "setup" THEN "caller" ELSE transport
  /\ live' = live
  /\ pc' = "cac_ret"

\* A setup step failed: the error leaves authenticate and the connection
\* function through `?`, and the transport is dropped with it.
SetupFail(step, e) ==
  /\ steps' = [steps EXCEPT ![step] = "fail"]
  /\ cacRes' = RetErr(e)
  /\ transport' = IF transport = "setup" THEN "dropped" ELSE transport
  /\ live' = IF transport = "setup" THEN live - 1 ELSE live
  /\ pc' = "cac_ret"

\* TcpStream::connect(addr).await?  The connection function starts with a
\* fresh socket: nothing of an earlier connection is carried over.
Connect ==
  /\ UNCHANGED writeVars
  /\ pc = "connect"
  /\ wire' = <<>>
  /\ response' = NoFrame
  /\ rr' = "none"
  /\ connects' = IF top = "rcn" THEN [connects EXCEPT ![idx] = @ + 1] ELSE connects
  /\ \E ok \in BOOLEAN :
       IF ok
         THEN /\ steps' = [NoSteps EXCEPT !.socket = "ok"]
              /\ transport' = "setup"
              /\ live' = live + 1
              /\ cacRes' = NoRet
              /\ pc' = IF variant = "tls" THEN "tls_connect" ELSE "authenticate"
         ELSE /\ steps' = [NoSteps EXCEPT !.socket = "fail"]
              /\ transport' = "none"
              /\ live' = live
              /\ cacRes' = RetErr(RedisError("IO", <<"connect">>))
              /\ pc' = "cac_ret"
  /\ UNCHANGED <<cfg, tried, resolves, queries, outcome, state, top, variant, idx,
                 ret, stateSets>>

\* tls::create_tls_connector(&inner.config)? and
\* tls_stream.connect(domain, socket).await?
TlsConnect ==
  /\ UNCHANGED writeVars
  /\ pc = "tls_connect"
  /\ \E o \in {"ok", "connector", "handshake"} :
       IF o = "ok"
         THEN /\ steps' = [steps EXCEPT !.tls = "ok"]
              /\ pc' = "authenticate"
              /\ UNCHANGED <<cacRes, transport, live>>
         ELSE SetupFail("tls", RedisError("Tls", <<o>>))
  /\ UNCHANGED <<cfg, hist, state, top, variant, idx, rr, wire, response, ret,
                 stateSets>>

\* authenticate, entry: the credential step when a key is configured, else
\* straight to the naming step.
Authenticate ==
  /\ UNCHANGED writeVars
  /\ pc = "authenticate"
  /\ IF key # "None"
       THEN /\ rr' = "auth"
            /\ UNCHANGED steps
       ELSE /\ rr' = "name"
            /\ steps' = [steps EXCEPT !.auth = "skipped"]
  /\ pc' = "rr_send"
  /\ UNCHANGED <<cfg, hist, state, top, variant, idx, transport, live, wire, response,
                 cacRes, ret, stateSets>>

\* SeedNone ending the scan at the first seed that fails.
SeedNoneAborts ==
  /\ outcome' = [outcome EXCEPT ![idx] = [nodes |-> "failed"]]
  /\ idx' = Len(known_nodes) + 1
  /\ transport' = IF transport = "setup" THEN "dropped" ELSE transport
  /\ live' = IF transport = "setup" THEN live - 1 ELSE live
  /\ pc' = "rcn_loop"

\* SeedNone keeping the seed's connection open.
SeedNoneLeaks ==
  /\ outcome' = [outcome EXCEPT ![idx] = [nodes |-> "failed"]]
  /\ idx' = idx + 1
  /\ transport' = transport
  /\ live' = live
  /\ pc' = "rcn_loop"

\* SeedNone trying the seed a second time before it moves on.
SeedNoneRetriesOnce ==
  /\ outcome' = [outcome EXCEPT ![idx] = [nodes |-> "failed"]]
  /\ idx' = IF resolves[idx] < 2 THEN idx ELSE idx + 1
  /\ transport' = IF transport = "setup" THEN "dropped" ELSE transport
  /\ live' = IF transport = "setup" THEN live - 1 ELSE live
  /\ pc' = "rcn_loop"

\* read_cluster_state returns None: the seed's connection is dropped and
\* the loop of read_cluster_nodes goes on to the next seed.
SeedNone ==
  /\ outcome' = [outcome EXCEPT ![idx] = [nodes |-> "failed"]]
  /\ idx' = idx + 1
  /\ transport' = IF transport = "setup" THEN "dropped" ELSE transport
  /\ live' = IF transport = "setup" THEN live - 1 ELSE live
  /\ pc' = "rcn_loop"

\* request_response fails with e: inside authenticate the error aborts the
\* setup; inside read_cluster_state it is logged and the seed yields None.
RRFail(e) ==
  IF rr = "nodes"
    THEN /\ SeedNone
         /\ UNCHANGED <<steps, cacRes>>
    ELSE /\ SetupFail(rr, e)
         /\ UNCHANGED <<outcome, idx>>

\* RR_Send writing the request a second time after a failed write.
RR_SendRetries ==
  /\ UNCHANGED writeVars
  /\ pc = "rr_send"
  /\ queries' = IF rr = "nodes" THEN [queries EXCEPT ![idx] = @ + 1] ELSE queries
  /\ \E o \in {"ok", "frame_err", "io_err"} :
       CASE o = "ok" ->
              /\ wire' = Append(wire, Event("send", rr, NoFrame))
              /\ pc' = "rr_recv"
              /\ UNCHANGED <<steps, cacRes, transport, live, outcome, idx>>
         [] o = "frame_err" ->
              /\ RRFail(RedisError("InvalidCommand", <<"to_frame">>))
              /\ UNCHANGED wire
         [] o = "io_err" ->
              /\ wire' = Append(wire, Event("send_err", rr, NoFrame))
              /\ IF Event("send_err", rr, NoFrame) \in {wire[i] : i \in DOMAIN wire}
                   THEN RRFail(RedisError("IO", <<"send">>))
                   ELSE UNCHANGED <<pc, steps, cacRes, transport, live, outcome, idx>>
  /\ UNCHANGED <<cfg, tried, resolves, connects, state, top, variant, rr, response,
                 ret, stateSets>>

\* request_response, first half: request.to_frame()? and
\* transport.send(frame).await?
RR_Send ==
  /\ UNCHANGED writeVars
  /\ pc = "rr_send"
  /\ queries' = IF rr = "nodes" THEN [queries EXCEPT ![idx] = @ + 1] ELSE queries
  /\ \E o \in {"ok", "frame_err", "io_err"} :
       CASE o = "ok" ->
              /\ wire' = Append(wire, Event("send", rr, NoFrame))
              /\ pc' = "rr_recv"
              /\ UNCHANGED <<steps, cacRes, transport, live, outcome, idx>>
         [] o = "frame_err" ->
              /\ RRFail(RedisError("InvalidCommand", <<"to_frame">>))
              /\ UNCHANGED wire
         [] o = "io_err" ->
              /\ RRFail(RedisError("IO", <<"send">>))
              /\ wire' = Append(wire, Event("send_err", rr, NoFrame))
  /\ UNCHANGED <<cfg, tried, resolves, connects, state, top, variant, rr, response,
                 ret, stateSets>>

\* The continuation of request_response's caller.
AfterReply == [auth |-> "auth_reply", name |-> "name_reply", nodes |-> "nodes_reply"]

\* RR_Recv reporting a stream closed before any reply as an I/O error.
RR_RecvClosedIsError ==
  /\ UNCHANGED writeVars
  /\ pc = "rr_recv"
  /\ \E o \in {"frame", "closed", "io_err", "decode_err"} :
       CASE o = "frame" ->
              \E f \in Frames :
                /\ response' = f
                /\ wire' = Append(wire, Event("recv", rr, f))
                /\ pc' = AfterReply[rr]
                /\ UNCHANGED <<steps, cacRes, transport, live, outcome, idx>>
         [] o = "closed" ->
              /\ RRFail(RedisError("IO", <<"read">>))
              /\ wire' = Append(wire, Event("closed", rr, NoFrame))
              /\ UNCHANGED response
         [] o \in {"io_err", "decode_err"} ->
              /\ RRFail(RedisError(IF o = "io_err" THEN "IO" ELSE "Decode", <<"read">>))
              /\ wire' = Append(wire, Event("recv_err", rr, NoFrame))
              /\ UNCHANGED response
  /\ UNCHANGED <<cfg, tried, resolves, connects, queries, state, top, variant, rr,
                 ret, stateSets>>

\* request_response, second half: transport.into_future().await, a closed
\* stream read as ProtocolFrame::Null.
RR_Recv ==
  /\ UNCHANGED writeVars
  /\ pc = "rr_recv"
  /\ \E o \in {"frame", "closed", "io_err", "decode_err"} :
       CASE o = "frame" ->
              \E f \in Frames :
                /\ response' = f
                /\ wire' = Append(wire, Event("recv", rr, f))
                /\ pc' = AfterReply[rr]
                /\ UNCHANGED <<steps, cacRes, transport, live, outcome, idx>>
         [] o = "closed" ->
              /\ response' = NullFrame
              /\ wire' = Append(wire, Event("closed", rr, NoFrame))
              /\ pc' = AfterReply[rr]
              /\ UNCHANGED <<steps, cacRes, transport, live, outcome, idx>>
         [] o \in {"io_err", "decode_err"} ->
              /\ RRFail(RedisError(IF o = "io_err" THEN "IO" ELSE "Decode", <<"read">>))
              /\ wire' = Append(wire, Event("recv_err", rr, NoFrame))
              /\ UNCHANGED response
  /\ UNCHANGED <<cfg, tried, resolves, connects, queries, state, top, variant, rr,
                 ret, stateSets>>

\* AuthReply with the reply to AUTH ignored: the naming step always follows.
AuthReplyIgnored ==
  /\ UNCHANGED writeVars
  /\ pc = "auth_reply"
  /\ steps' = [steps EXCEPT !.auth = "ok"]
  /\ rr' = "name"
  /\ pc' = "rr_send"
  /\ UNCHANGED <<cacRes, transport, live>>
  /\ UNCHANGED <<cfg, hist, state, top, variant, idx, wire, response, ret, stateSets>>

\* authenticate, after the AUTH round trip.
AuthReply ==
  /\ UNCHANGED writeVars
  /\ pc = "auth_reply"
  /\ IF AuthCheck(response) = NoErr
       THEN /\ steps' = [steps EXCEPT !.auth = "ok"]
            /\ rr' = "name"
            /\ pc' = "rr_send"
            /\ UNCHANGED <<cacRes, transport, live>>
       ELSE /\ SetupFail("auth", AuthCheck(response))
            /\ UNCHANGED rr
  /\ UNCHANGED <<cfg, hist, state, top, variant, idx, wire, response, ret, stateSets>>

\* authenticate, after the CLIENT SETNAME round trip.
NameReply ==
  /\ UNCHANGED writeVars
  /\ pc = "name_reply"
  /\ IF NameCheck(response) = NoErr
       THEN /\ steps' = [steps EXCEPT !.name = "ok"]
            /\ pc' = "set_state"
            /\ UNCHANGED <<cacRes, transport, live>>
       ELSE SetupFail("name", NameCheck(response))
  /\ UNCHANGED <<cfg, hist, state, top, variant, idx, rr, wire, response, ret,
                 stateSets>>

\* SetConnected leaving the flag alone on a connection opened by discovery.
SetConnectedDirectOnly ==
  /\ UNCHANGED writeVars
  /\ pc = "set_state"
  /\ state' = IF top = "cac" THEN "Connected" ELSE state
  /\ stateSets' = IF top = "cac" THEN stateSets + 1 ELSE stateSets
  /\ steps' = [steps EXCEPT !.flag = "set"]
  /\ cacRes' = RetOk([nodes |-> "none"])
  /\ pc' = "cac_ret"
  /\ UNCHANGED <<cfg, hist, top, variant, idx, rr, transport, live, wire, response, ret>>

\* client_utils::set_client_state(&inner.state, ClientState::Connected) and
\* Ok(framed), once authenticate has returned the transport.
SetConnected ==
  /\ UNCHANGED writeVars
  /\ pc = "set_state"
  /\ state' = "Connected"
  /\ stateSets' = stateSets + 1
  /\ steps' = [steps EXCEPT !.flag = "set"]
  /\ cacRes' = RetOk([nodes |-> "none"])
  /\ pc' = "cac_ret"
  /\ UNCHANGED <<cfg, hist, top, variant, idx, rr, transport, live, wire, response, ret>>

\* create_authenticated_connection(_tls) returns to the caller that invoked
\* it: the transport on success, the error otherwise.
CreateReturn ==
  /\ UNCHANGED writeVars
  /\ pc = "cac_ret"
  /\ top = "cac"
  /\ ret' = cacRes
  /\ transport' = IF cacRes.tag = "Ok" THEN "caller" ELSE transport
  /\ live' = live
  /\ pc' = "done"
  /\ UNCHANGED <<cfg, hist, state, top, variant, idx, rr, wire, response, steps,
                 cacRes, stateSets>>

\* ------------------------------------------------------ cluster discovery

\* The caller invokes read_cluster_nodes.
CallReadClusterNodes ==
  /\ UNCHANGED writeVars
  /\ top = "none"
  /\ pc = "idle"
  /\ top' = "rcn"
  /\ pc' = "rcn_hosts"
  /\ UNCHANGED <<cfg, hist, state, variant, idx, rr, transport, live, wire, response,
                 steps, cacRes, ret, stateSets>>

\* protocol_utils::read_clustered_hosts(&inner.config)? and the TLS setting.
ReadHosts ==
  /\ UNCHANGED writeVars
  /\ pc = "rcn_hosts"
  /\ \E ok \in BOOLEAN :
       IF ok
         THEN /\ idx' = 1
              /\ pc' = "rcn_loop"
              /\ UNCHANGED ret
         ELSE /\ ret' = RetErr(RedisError("Config", <<"read_clustered_hosts">>))
              /\ pc' = "done"
              /\ UNCHANGED idx
  /\ UNCHANGED <<cfg, hist, state, top, variant, rr, transport, live, wire, response,
                 steps, cacRes, stateSets>>

\* SeedAt taking the seeds from the end of the list.
SeedAtReversed(i) == known_nodes[Len(known_nodes) + 1 - i]

\* HasNext stopping one seed short.
HasNextShort(i) == i < Len(known_nodes)

\* known_nodes.into_iter(): whether a seed is left at position i, and the seed.
HasNext(i) == i <= Len(known_nodes)

SeedAt(i) == known_nodes[i]

\* read_cluster_nodes, the loop over known_nodes and the error after it.
SeedLoop ==
  /\ UNCHANGED writeVars
  /\ pc = "rcn_loop"
  /\ IF HasNext(idx)
       THEN /\ pc' = "rcs_resolve"
            /\ UNCHANGED ret
       ELSE /\ ret' = RetErr(UnreachableError)
            /\ pc' = "done"
  /\ UNCHANGED <<cfg, hist, state, top, variant, idx, rr, transport, live, wire, response,
                 steps, cacRes, stateSets>>

\* read_cluster_state: inner.resolver.resolve(host, port).await
Resolve ==
  /\ UNCHANGED writeVars
  /\ pc = "rcs_resolve"
  /\ tried' = Append(tried, SeedAt(idx))
  /\ resolves' = [resolves EXCEPT ![idx] = @ + 1]
  /\ \E ok \in BOOLEAN :
       IF ok
         THEN /\ variant' = VariantOf(uses_tls)
              /\ pc' = "connect"
              /\ UNCHANGED <<outcome, idx, transport, live>>
         ELSE /\ SeedNone
              /\ UNCHANGED variant
  /\ UNCHANGED <<cfg, connects, queries, state, top, rr, wire, response, steps,
                 cacRes, ret, stateSets>>

\* read_cluster_state: the match on the connection function's result.
SeedConnection ==
  /\ UNCHANGED writeVars
  /\ pc = "cac_ret"
  /\ top = "rcn"
  /\ IF cacRes.tag = "Ok"
       THEN /\ rr' = "nodes"
            /\ pc' = "rr_send"
            /\ UNCHANGED <<outcome, idx, transport, live>>
       ELSE /\ SeedNone
            /\ UNCHANGED rr
  /\ UNCHANGED <<cfg, tried, resolves, connects, queries, state, top, variant, wire,
                 response, steps, cacRes, ret, stateSets>>

\* read_cluster_state, after the CLUSTER NODES round trip, and the return of
\* read_cluster_nodes on Some(cache).  The transport handed back by
\* request_response is dropped.
NodesReply ==
  /\ UNCHANGED writeVars
  /\ pc = "nodes_reply"
  /\ IF ClusterState(response).nodes = "None"
       THEN /\ SeedNone
            /\ UNCHANGED ret
       ELSE /\ outcome' = [outcome EXCEPT ![idx] = ClusterState(response)]
            /\ ret' = RetOk(ClusterState(response))
            /\ transport' = "dropped"
            /\ live' = live - 1
            /\ pc' = "done"
            /\ UNCHANGED idx
  /\ UNCHANGED <<cfg, tried, resolves, connects, queries, state, top, variant, rr,
                 wire, response, steps, cacRes, stateSets>>

SetupNext ==
  \/ CallCreate
  \/ Connect
  \/ TlsConnect
  \/ Authenticate
  \/ RR_Send
  \/ RR_Recv
  \/ AuthReply
  \/ NameReply
  \/ SetConnected
  \/ CreateReturn
  \/ CallReadClusterNodes
  \/ ReadHosts
  \/ SeedLoop
  \/ Resolve
  \/ SeedConnection
  \/ NodesReply

Next == SetupNext

Spec == Init /\ [][Next]_vars

\* Every awaited operation completes and the code between two awaits runs:
\* a step that can be taken is eventually taken.
SpecFair == Init /\ [][Next]_vars /\ WF_vars(Next)

\* ------------------------------------------------------ command dispatcher

\* Calls of write_command in one run.
MaxCalls == 3

\* Command kinds: the one that closes the connection, the two that end a
\* transaction, and a user operation.
Kinds == {"Quit", "Exec", "Discard", "Get"}

\* The commands a caller hands to write_command: fresh (never attempted) or
\* retried, with no response channel, a free one, or a locked one, and
\* convertible to a frame or not.
Commands(id) ==
  {[id |-> id, kind |-> k, attempted |-> a,
    network_start |-> IF a = 0 THEN "None" ELSE "Some",
    resp_tx |-> tx, convertible |-> c] :
     k \in Kinds, a \in {0, 1}, tx \in {"None", "unlocked", "locked"}, c \in BOOLEAN}

\* RedisCommand::is_quit
is_quit(cmd) == cmd.kind = "Quit"

\* RedisCommandKind::ends_transaction
ends_transaction(kind) == kind \in {"Exec", "Discard"}

\* client_utils::is_locked_some(&command.command.resp_tx)
is_locked_some(resp_tx) == resp_tx = "locked"

\* ShouldFlush without the QUIT case.
ShouldFlushNoQuit(ss, cmd) ==
  \/ ss
  \/ ends_transaction(cmd.kind)
  \/ is_locked_some(cmd.resp_tx)

\* write_command: the flush decision.
ShouldFlush(ss, cmd) ==
  \/ ss
  \/ is_quit(cmd)
  \/ ends_transaction(cmd.kind)
  \/ is_locked_some(cmd.resp_tx)

\* WriteCommand counting the attempt before the conversion to a frame.
WriteCommandCountsFirst ==
  /\ wpc \in {"idle", "ret"}
  /\ calls < MaxCalls
  /\ calls' = calls + 1
  /\ \E cmd \in Commands(calls + 1), ss \in BOOLEAN :
       /\ pre' = [command |-> cmd,
                  counters |-> [feed_count |-> feed_count, in_flight |-> in_flight]]
       /\ should_send' = ss
       /\ sinkRes' = "none"
       /\ command' = [cmd EXCEPT !.attempted = @ + 1,
                                 !.network_start = "Some"]
       /\ IF cmd.convertible
            THEN /\ should_flush' = ShouldFlush(ss, cmd)
                 /\ wpc' = IF ShouldFlush(ss, cmd) THEN "send" ELSE "feed"
                 /\ wret' = NoErr
                 /\ UNCHANGED failed
            ELSE /\ should_flush' = FALSE
                 /\ wpc' = "ret"
                 /\ wret' = RedisError("InvalidCommand", <<"to_frame">>)
                 /\ failed' = TRUE
  /\ UNCHANGED <<feed_count, in_flight, sinkBuf, net>>
  /\ UNCHANGED <<setupVars, observed>>

\* write_command up to its await: to_frame()?, incr_attempted, network_start,
\* and the choice between send and feed.
WriteCommand ==
  /\ wpc \in {"idle", "ret"}
  /\ calls < MaxCalls
  /\ calls' = calls + 1
  /\ \E cmd \in Commands(calls + 1), ss \in BOOLEAN :
       /\ pre' = [command |-> cmd,
                  counters |-> [feed_count |-> feed_count, in_flight |-> in_flight]]
       /\ should_send' = ss
       /\ sinkRes' = "none"
       /\ IF cmd.convertible
            THEN /\ command' = [cmd EXCEPT !.attempted = @ + 1,
                                           !.network_start = "Some"]
                 /\ should_flush' = ShouldFlush(ss, cmd)
                 /\ wpc' = IF ShouldFlush(ss, cmd) THEN "send" ELSE "feed"
                 /\ wret' = NoErr
                 /\ UNCHANGED failed
            ELSE /\ command' = cmd
                 /\ should_flush' = FALSE
                 /\ wpc' = "ret"
                 /\ wret' = RedisError("InvalidCommand", <<"to_frame">>)
                 /\ failed' = TRUE
  /\ UNCHANGED <<feed_count, in_flight, sinkBuf, net>>
  /\ UNCHANGED <<setupVars, observed>>

\* SinkSend writing the flushing command's frame ahead of the buffered ones.
SinkSendJumpsQueue ==
  /\ wpc = "send"
  /\ \E o \in {"ok", "write_err", "flush_err"} :
       /\ sinkRes' = o
       /\ CASE o = "ok" ->
              /\ net' = net \o <<command.id>> \o sinkBuf
              /\ sinkBuf' = <<>>
              /\ wpc' = "sent"
              /\ UNCHANGED <<wret, failed>>
         [] o = "write_err" ->
              /\ wret' = RedisError("IO", <<"write">>)
              /\ failed' = TRUE
              /\ wpc' = "ret"
              /\ UNCHANGED <<net, sinkBuf>>
         [] o = "flush_err" ->
              /\ sinkBuf' = Append(sinkBuf, command.id)
              /\ wret' = RedisError("IO", <<"flush">>)
              /\ failed' = TRUE
              /\ wpc' = "ret"
              /\ UNCHANGED net
  /\ UNCHANGED <<feed_count, in_flight, command, should_send, should_flush, pre, calls>>
  /\ UNCHANGED <<setupVars, observed>>

\* inner.send(frame).await?: the frame is written and the sink flushed, or
\* the write or the flush fails.
SinkSend ==
  /\ wpc = "send"
  /\ \E o \in {"ok", "write_err", "flush_err"} :
       /\ sinkRes' = o
       /\ CASE o = "ok" ->
              /\ net' = net \o sinkBuf \o <<command.id>>
              /\ sinkBuf' = <<>>
              /\ wpc' = "sent"
              /\ UNCHANGED <<wret, failed>>
         [] o = "write_err" ->
              /\ wret' = RedisError("IO", <<"write">>)
              /\ failed' = TRUE
              /\ wpc' = "ret"
              /\ UNCHANGED <<net, sinkBuf>>
         [] o = "flush_err" ->
              /\ sinkBuf' = Append(sinkBuf, command.id)
              /\ wret' = RedisError("IO", <<"flush">>)
              /\ failed' = TRUE
              /\ wpc' = "ret"
              /\ UNCHANGED net
  /\ UNCHANGED <<feed_count, in_flight, command, should_send, should_flush, pre, calls>>
  /\ UNCHANGED <<setupVars, observed>>

\* SinkFeed counting the command even when the write failed.
SinkFeedCountsFailure ==
  /\ wpc = "feed"
  /\ \E ok \in BOOLEAN :
       IF ok
         THEN /\ sinkBuf' = Append(sinkBuf, command.id)
              /\ sinkRes' = "ok"
              /\ wpc' = "fed"
              /\ UNCHANGED <<wret, failed, feed_count, in_flight>>
         ELSE /\ sinkRes' = "write_err"
              /\ wret' = RedisError("IO", <<"write">>)
              /\ failed' = TRUE
              /\ wpc' = "ret"
              /\ feed_count' = feed_count + 1
              /\ in_flight' = in_flight + 1
              /\ UNCHANGED sinkBuf
  /\ UNCHANGED <<net, command, should_send, should_flush, pre, calls>>
  /\ UNCHANGED <<setupVars, observed>>

\* inner.feed(frame).await?: the frame is written to the sink's buffer, or
\* the write fails.
SinkFeed ==
  /\ wpc = "feed"
  /\ \E ok \in BOOLEAN :
       IF ok
         THEN /\ sinkBuf' = Append(sinkBuf, command.id)
              /\ sinkRes' = "ok"
              /\ wpc' = "fed"
              /\ UNCHANGED <<wret, failed>>
         ELSE /\ sinkRes' = "write_err"
              /\ wret' = RedisError("IO", <<"write">>)
              /\ failed' = TRUE
              /\ wpc' = "ret"
              /\ UNCHANGED sinkBuf
  /\ UNCHANGED <<feed_count, in_flight, net, command, should_send, should_flush, pre,
                 calls>>
  /\ UNCHANGED <<setupVars, observed>>

\* AfterSend without the reset of the feed counter.
AfterSendNoReset ==
  /\ wpc = "sent"
  /\ in_flight' = in_flight + 1
  /\ wret' = NoErr
  /\ UNCHANGED failed
  /\ wpc' = "ret"
  /\ UNCHANGED <<feed_count, sinkBuf, net, command, should_send, should_flush, pre,
                 sinkRes, calls>>
  /\ UNCHANGED <<setupVars, observed>>

\* After the send: counters.reset_feed_count(), counters.incr_in_flight(), Ok(()).
AfterSend ==
  /\ wpc = "sent"
  /\ feed_count' = 0
  /\ in_flight' = in_flight + 1
  /\ wret' = NoErr
  /\ UNCHANGED failed
  /\ wpc' = "ret"
  /\ UNCHANGED <<sinkBuf, net, command, should_send, should_flush, pre, sinkRes,
                 calls>>
  /\ UNCHANGED <<setupVars, observed>>

\* AfterFeed without the increment of the feed counter.
AfterFeedNoCount ==
  /\ wpc = "fed"
  /\ in_flight' = in_flight + 1
  /\ wret' = NoErr
  /\ UNCHANGED failed
  /\ wpc' = "ret"
  /\ UNCHANGED <<feed_count, sinkBuf, net, command, should_send, should_flush, pre,
                 sinkRes, calls>>
  /\ UNCHANGED <<setupVars, observed>>

\* After the feed: counters.incr_feed_count(), counters.incr_in_flight(), Ok(()).
AfterFeed ==
  /\ wpc = "fed"
  /\ feed_count' = feed_count + 1
  /\ in_flight' = in_flight + 1
  /\ wret' = NoErr
  /\ UNCHANGED failed
  /\ wpc' = "ret"
  /\ UNCHANGED <<sinkBuf, net, command, should_send, should_flush, pre, sinkRes,
                 calls>>
  /\ UNCHANGED <<setupVars, observed>>

\* A client that is set up and idle, about to write commands.
SetupDone ==
  /\ key = "None"
  /\ tls_feature = FALSE
  /\ known_nodes = <<>>
  /\ state = "Connected"
  /\ state0 = "Connected"
  /\ top = "cac"
  /\ pc = "done"
  /\ variant = "tcp"
  /\ uses_tls = FALSE
  /\ idx = 0
  /\ rr = "name"
  /\ transport = "caller"
  /\ live = 1
  /\ wire = <<>>
  /\ response = NoFrame
  /\ steps = NoSteps
  /\ cacRes = NoRet
  /\ ret = NoRet
  /\ tried = <<>>
  /\ resolves = <<>>
  /\ connects = <<>>
  /\ queries = <<>>
  /\ outcome = <<>>
  /\ stateSets = 0

InitWrite == SetupDone /\ WriteInit

NextWrite ==
  \/ WriteCommand
  \/ SinkSend
  \/ SinkFeed
  \/ AfterSend
  \/ AfterFeed

SpecWrite == InitWrite /\ [][NextWrite]_vars

\* The response consumer on the read half: it observes the reply to a command
\* that is on the network and decrements the in-flight counter, atomically.
Consume ==
  /\ observed < Len(net)
  /\ observed' = observed + 1
  /\ in_flight' = in_flight - 1
  /\ UNCHANGED <<feed_count, sinkBuf, net, command, wpc, should_send, should_flush, pre,
                 sinkRes, wret, calls, failed>>
  /\ UNCHANGED setupVars

\* write_command on the write half, the response consumer on the read half.
NextConc ==
  \/ NextWrite
  \/ Consume

SpecConc == InitWrite /\ [][NextConc]_vars

\* ------------------------------------------------------ one connection's life

\* The caller splits the transport it was handed into its read and write
\* halves; write_command runs on the write half.
Split ==
  /\ transport = "caller"
  /\ transport' = "split"
  /\ UNCHANGED <<cfg, hist, state, top, pc, variant, idx, rr, live, wire, response,
                 steps, cacRes, ret, stateSets>>
  /\ UNCHANGED writeVars

\* write_command, on the write half of a split transport.
SessionWrite == transport = "split" /\ NextWrite

\* A client without seeds, about to open one connection.
SessionInit ==
  /\ Init
  /\ known_nodes = <<>>
  /\ uses_tls = FALSE
  /\ state0 = "Disconnected"

\* One connection from setup to steady state: the connection function, then
\* the split, then commands.
NextSession ==
  \/ CallCreate
  \/ Connect
  \/ TlsConnect
  \/ Authenticate
  \/ RR_Send
  \/ RR_Recv
  \/ AuthReply
  \/ NameReply
  \/ SetConnected
  \/ CreateReturn
  \/ Split
  \/ SessionWrite

SpecSession == SessionInit /\ [][NextSession]_vars

\* ------------------------------------------------------ what the wire saw

\* How often request c was written to the current transport.
Sent(c) == Cardinality({i \in DOMAIN wire : wire[i].ev = "send" /\ wire[i].cmd = c})

\* The positions at which a reply to request c was read (a frame, or the
\* peer's close).
Replies(c) == {i \in DOMAIN wire : wire[i].cmd = c /\ wire[i].ev \in {"recv", "closed"}}

\* The reply request_response yielded for request c.
ReplyTo(c) ==
  LET i == CHOOSE j \in Replies(c) : TRUE
  IN IF wire[i].ev = "closed" THEN NullFrame ELSE wire[i].frame

IsOk(f) == f.type = "SimpleString" /\ f.val = "OK"

\* authenticate is running on the current transport.
InAuthenticate ==
  \/ pc = "authenticate"
  \/ pc \in {"rr_send", "rr_recv", "auth_reply", "name_reply"} /\ rr \in {"auth", "name"}

\* authenticate ran on the current transport and has returned.
AuthReturned ==
  /\ steps.socket = "ok"
  /\ steps.tls # "fail"
  /\ pc # "tls_connect"
  /\ ~InAuthenticate

\* Every setup request of the current transport was converted, written and
\* answered: the server's replies alone decided how authenticate went.
Answered ==
  /\ cacRes.err.kind # "InvalidCommand"
  /\ \A i \in DOMAIN wire :
       wire[i].cmd \in {"auth", "name"} => wire[i].ev \notin {"send_err", "recv_err"}

\* CLIENT SETNAME is written only once the reply to AUTH, when AUTH was
\* sent, has been read.
NameAfterAuthReply ==
  \A i \in DOMAIN wire :
    (wire[i].ev = "send" /\ wire[i].cmd = "name") =>
      (Sent("auth") = 0 \/ \E j \in Replies("auth") : j < i)

\* ------------------------------------------------------------------ C1

\* C1 as stated: whatever the configuration and the server's replies, once
\* authenticate has returned it has sent AUTH iff a credential is configured
\* and has sent CLIENT SETNAME exactly once, after the reply to AUTH.
C1_AlwaysNamesOnce ==
  (AuthReturned /\ Answered) =>
    /\ Sent("auth") = 1 <=> key # "None"
    /\ Sent("auth") <= 1
    /\ Sent("name") = 1
    /\ NameAfterAuthReply

\* C1, amended: AUTH is sent iff a credential is configured and at most once;
\* CLIENT SETNAME is sent at most once, never before the reply to AUTH, and
\* exactly once iff the AUTH step was skipped or answered by the simple
\* string OK (any other reply to AUTH ends authenticate with no SETNAME).
C1_NamesOnceAfterAuthOk ==
  /\ Sent("auth") <= 1
  /\ Sent("name") <= 1
  /\ Sent("auth") = 1 => key # "None"
  /\ NameAfterAuthReply
  /\ Sent("name") = 1 =>
       (key = "None" \/ (Replies("auth") # {} /\ IsOk(ReplyTo("auth"))))
  /\ (AuthReturned /\ Answered) =>
       /\ Sent("auth") = 1 <=> key # "None"
       /\ Sent("name") = 1 <=>
            (key = "None" \/ (Replies("auth") # {} /\ IsOk(ReplyTo("auth"))))

\* A credential is configured, AUTH was answered OK and SETNAME followed it.
C1_Witness ==
  /\ AuthReturned
  /\ key # "None"
  /\ Len(wire) >= 4
  /\ wire[1] = Event("send", "auth", NoFrame)
  /\ wire[2] = Event("recv", "auth", SimpleString("OK"))
  /\ wire[3] = Event("send", "name", NoFrame)
  /\ wire[4].cmd = "name" /\ wire[4].ev = "recv"

\* ------------------------------------------------------------------ C2

\* The current connection's setup went through in full, as the wire saw it.
SetupSucceeded ==
  /\ steps.socket = "ok"
  /\ variant = "tls" => steps.tls = "ok"
  /\ key # "None" => (Replies("auth") # {} /\ IsOk(ReplyTo("auth")))
  /\ Replies("name") # {} /\ IsOk(ReplyTo("name"))

\* C2: the connection function sets the flag to Connected only after the
\* socket connect, the TLS handshake (TLS variant), the AUTH reply OK
\* (credential configured) and the CLIENT SETNAME reply OK; when a step
\* fails it returns an error and leaves the flag as it was.
C2_ConnectedOnlyAfterSetup ==
  /\ steps.flag = "set" => (SetupSucceeded /\ state = "Connected")
  /\ stateSets = 0 => state = state0
  /\ (top = "cac" /\ pc = "done") =>
       /\ ret.tag = "Ok" <=> SetupSucceeded
       /\ ret.tag = "Ok" <=> steps.flag = "set"
       /\ ret.tag = "Err" => (stateSets = 0 /\ state = state0 /\ transport # "caller")
       /\ ret.tag \in {"Ok", "Err"}

\* A connection attempt that got an answer other than OK to CLIENT SETNAME
\* has returned its error, the flag still Connecting.
C2_Witness ==
  /\ top = "cac"
  /\ pc = "done"
  /\ key # "None"
  /\ variant = "tls"
  /\ Replies("name") # {}
  /\ ~IsOk(ReplyTo("name"))
  /\ ret.tag = "Err"
  /\ state = "Connecting"

\* ------------------------------------------------------------------ C3

\* The call got past to_frame and decided between send and feed.
Dispatched == pre.command.convertible /\ wpc \in {"send", "feed", "sent", "fed", "ret"}

\* The condition C3 names, on the command and the signal as the call found
\* them.
C3_FlushCondition ==
  \/ should_send
  \/ pre.command.kind = "Quit"
  \/ pre.command.kind \in {"Exec", "Discard"}
  \/ (pre.command.resp_tx # "None" /\ pre.command.resp_tx = "locked")

\* C3: write_command takes the flush branch (send) iff should_send() holds,
\* or the command is QUIT, or its kind ends a transaction, or its response
\* channel is present and locked; otherwise it takes the feed branch.  A
\* QUIT always flushes.
C3_FlushIffCondition ==
  Dispatched =>
    /\ wpc \in {"send", "sent"} => C3_FlushCondition
    /\ wpc \in {"feed", "fed"} => ~C3_FlushCondition
    /\ sinkRes = "ok" =>
         /\ C3_FlushCondition =>
              (Len(net) > 0 /\ net[Len(net)] = command.id /\ sinkBuf = <<>>)
         /\ ~C3_FlushCondition =>
              (Len(sinkBuf) > 0 /\ sinkBuf[Len(sinkBuf)] = command.id
                 /\ \A i \in DOMAIN net : net[i] # command.id)
    /\ pre.command.kind = "Quit" => wpc \notin {"feed", "fed"}

\* A QUIT with no response channel, written while should_send() said no and
\* an earlier frame was still buffered, went out with a flush.
C3_Witness ==
  /\ wpc = "sent"
  /\ pre.command.kind = "Quit"
  /\ pre.command.resp_tx = "None"
  /\ ~should_send
  /\ Len(net) = 2
  /\ net[2] = command.id

\* ------------------------------------------------------------------ C4

\* C4: a call of write_command that succeeds leaves the feed counter at 0
\* when it flushed and one higher than before when it fed, and the in-flight
\* counter one higher than before on either branch.
C4_CounterUpdates ==
  (wpc = "ret" /\ sinkRes = "ok") =>
    /\ wret = NoErr
    /\ C3_FlushCondition => feed_count = 0
    /\ ~C3_FlushCondition => feed_count = pre.counters.feed_count + 1
    /\ in_flight = pre.counters.in_flight + 1

\* A flushing call that found the feed counter at 2 has reset it.
C4_Witness ==
  /\ wpc = "ret"
  /\ sinkRes = "ok"
  /\ C3_FlushCondition
  /\ pre.counters.feed_count = 2
  /\ feed_count = 0
  /\ in_flight = 3

\* ------------------------------------------------------------------ C5

\* C5: when the sink's write or flush fails, write_command returns the I/O
\* error; the command keeps the attempt increment and its network-start
\* timestamp, and the feed and in-flight counters are as the call found them.
C5_IoErrorLeavesCounters ==
  sinkRes \in {"write_err", "flush_err"} =>
    /\ wpc = "ret"
    /\ wret.kind = "IO"
    /\ command.attempted = pre.command.attempted + 1
    /\ command.network_start = "Some"
    /\ feed_count = pre.counters.feed_count
    /\ in_flight = pre.counters.in_flight

\* A first attempt whose flush failed, after an earlier command was fed.
C5_Witness ==
  /\ sinkRes = "flush_err"
  /\ wpc = "ret"
  /\ pre.command.attempted = 0
  /\ command.attempted = 1
  /\ feed_count = 1
  /\ in_flight = 1

\* ------------------------------------------------------------------ C6

\* read_cluster_nodes has returned to its caller.
DiscoveryDone == top = "rcn" /\ pc = "done"

\* Seed i was attempted once: resolved once, and connected and queried at
\* most once.
AttemptedOnce(i) == resolves[i] = 1 /\ connects[i] <= 1 /\ queries[i] <= 1

Untouched(i) == resolves[i] = 0 /\ connects[i] = 0 /\ queries[i] = 0

\* C6: seeds are tried in configured order, and a call that returns a cache
\* returns the one parsed from the reply of the first seed that got through
\* resolve, connect, the CLUSTER NODES round trip, the error check, the text
\* conversion and the parse; the seeds before it were attempted once and
\* failed, the seeds after it were never resolved or contacted.
C6_FirstSuccessWins ==
  /\ tried = SubSeq(known_nodes, 1, Len(tried))
  /\ (DiscoveryDone /\ ret.tag = "Ok") =>
       /\ Len(tried) \in Seeds
       /\ LET i == Len(tried) IN
            /\ resolves[i] = 1 /\ connects[i] = 1 /\ queries[i] = 1
            /\ SetupSucceeded
            /\ Replies("nodes") # {}
            /\ ReplyTo("nodes").type \in {"SimpleString", "BulkString"}
            /\ ReplyTo("nodes").val \in {"nodes-a", "nodes-b"}
            /\ ret.cache = [nodes |-> ReplyTo("nodes").val]
            /\ \A j \in Seeds : j < i => (AttemptedOnce(j) /\ outcome[j].nodes = "failed")
            /\ \A j \in Seeds : j > i => (Untouched(j) /\ outcome[j].nodes = "none")

\* Seeds [A, B, C]: A did not resolve, B was queried and failed, C answered
\* with a topology text and its cache was returned.
C6_Witness ==
  /\ DiscoveryDone
  /\ known_nodes = <<"A", "B", "C">>
  /\ tried = <<"A", "B", "C">>
  /\ connects[1] = 0
  /\ queries[2] = 1
  /\ outcome[2].nodes = "failed"
  /\ ret.tag = "Ok"
  /\ ret.cache = [nodes |-> "nodes-b"]

\* ------------------------------------------------------------------ C7

\* C7: when no seed succeeds, read_cluster_nodes fails with the Unknown
\* error "Could not read cluster state from any known node in the cluster.",
\* and only after every seed was attempted exactly once, in configured order.
C7_UnreachableAfterAllSeeds ==
  /\ (DiscoveryDone /\ ret.err.kind = "Unknown") =>
       /\ ret.tag = "Err"
       /\ ret.err.msg =
            <<"Could not read cluster state from any known node in the cluster.">>
       /\ tried = known_nodes
       /\ \A j \in Seeds : AttemptedOnce(j) /\ outcome[j].nodes = "failed"
  /\ (DiscoveryDone /\ idx >= 1 /\ \A j \in Seeds : outcome[j].nodes \in {"failed", "none"}) =>
       ret.err.kind = "Unknown"

\* Three seeds, all attempted and failed, and the Unknown error returned.
C7_Witness ==
  /\ DiscoveryDone
  /\ Len(known_nodes) = 3
  /\ tried = known_nodes
  /\ \A j \in Seeds : outcome[j].nodes = "failed"
  /\ connects[3] = 1
  /\ ret.tag = "Err"
  /\ ret.err.kind = "Unknown"

\* ------------------------------------------------------------------ C8

\* C8 as stated: every failing call of read_cluster_nodes returns the
\* aggregate Unknown error and no other.
C8_OnlyAggregateError ==
  (DiscoveryDone /\ ret.tag = "Err") =>
    ret.err =
      [kind |-> "Unknown",
       msg |-> <<"Could not read cluster state from any known node in the cluster.">>]

\* C8, amended: a failing call of read_cluster_nodes that read its seed list
\* returns the aggregate Unknown error, once every seed has failed, and
\* never a per-seed error; the one other error it returns is that of
\* read_clustered_hosts, before any seed is tried.
C8_AggregateOrHostsError ==
  (DiscoveryDone /\ ret.tag = "Err") =>
    \/ /\ idx >= 1
       /\ ret.err =
            [kind |-> "Unknown",
             msg |-> <<"Could not read cluster state from any known node in the cluster.">>]
       /\ \A j \in Seeds : outcome[j].nodes = "failed"
    \/ /\ idx = 0
       /\ ret.err.kind = "Config"
       /\ tried = <<>>
       /\ \A j \in Seeds : Untouched(j)

\* The last of two seeds failed on an error frame after its connection was
\* authenticated, and the caller got the aggregate error.
C8_Witness ==
  /\ DiscoveryDone
  /\ Len(known_nodes) = 2
  /\ ret.tag = "Err"
  /\ ret.err.kind = "Unknown"
  /\ cacRes.tag = "Ok"
  /\ Replies("nodes") # {}
  /\ ReplyTo("nodes").type = "Error"

\* ------------------------------------------------------------------ C9

\* The reply to request c has been read and acted upon.
Handled(c) == Replies(c) # {} /\ pc # AfterReply[c]

\* C9: a simple-string reply to AUTH other than OK makes authenticate fail
\* with an error of kind Auth whose message is the reply's text, and that is
\* the error the connection function returns.
C9_AuthErrorCarriesReply ==
  (Handled("auth") /\ ReplyTo("auth").type = "SimpleString" /\ ReplyTo("auth").val # "OK") =>
    /\ cacRes.tag = "Err"
    /\ cacRes.err.kind = "Auth"
    /\ cacRes.err.msg = <<ReplyTo("auth").val>>
    /\ Sent("name") = 0
    /\ (top = "cac" /\ pc = "done") => ret = cacRes

\* AUTH was answered by the simple string WRONGPASS and the caller got the
\* Auth error with that text.
C9_Witness ==
  /\ top = "cac"
  /\ pc = "done"
  /\ Handled("auth")
  /\ ReplyTo("auth") = SimpleString("WRONGPASS")
  /\ ret.err = [kind |-> "Auth", msg |-> <<"WRONGPASS">>]

\* ------------------------------------------------------------------ C10

\* C10: a reply to AUTH or to CLIENT SETNAME that is no simple string (an
\* error frame, a bulk, an array, an integer, or the null of a closed
\* stream) makes authenticate fail with a ProtocolError, and so does a
\* simple string other than OK in reply to CLIENT SETNAME (never Auth).
C10_ProtocolErrors ==
  /\ (Handled("auth") /\ ReplyTo("auth").type # "SimpleString") =>
       (cacRes.tag = "Err" /\ cacRes.err.kind = "ProtocolError")
  /\ (Handled("name") /\ ~IsOk(ReplyTo("name"))) =>
       (cacRes.tag = "Err" /\ cacRes.err.kind = "ProtocolError")
  /\ (Handled("name") /\ ReplyTo("name").type = "SimpleString"
        /\ ReplyTo("name").val # "OK") =>
       cacRes.err.msg = <<ReplyTo("name").val>>

\* After AUTH was answered OK, the peer closed the stream on CLIENT SETNAME
\* and the caller got a ProtocolError.
C10_Witness ==
  /\ top = "cac"
  /\ pc = "done"
  /\ Sent("auth") = 1
  /\ Len(wire) = 4
  /\ wire[4] = Event("closed", "name", NoFrame)
  /\ ret.tag = "Err"
  /\ ret.err.kind = "ProtocolError"


\* ------------------------------------------------------ C11

\* The last thing the wire saw on the current connection.
LastEvent == IF wire = <<>> THEN Event("none", "none", NoFrame) ELSE wire[Len(wire)]

\* The error the caller of request_response makes of a Null reply.
NullVerdict == [auth |-> AuthCheck(NullFrame), name |-> NameCheck(NullFrame)]

\* C11: when the peer closes the stream after the request was written and
\* before a reply, request_response hands its caller a Null reply and the
\* transport, not an error: the caller's continuation runs on Null with the
\* transport still held, and what the setup returns afterwards is that
\* continuation's verdict on Null, never an I/O or decode error.  An I/O or
\* decode error on the write or the read is returned as an error: the
\* continuation never runs, the transport is gone, and inside authenticate
\* the error is the one the connection function returns.
C11_CloseYieldsNull ==
  /\ (LastEvent.ev = "closed" /\ pc = AfterReply[LastEvent.cmd]) =>
       /\ response = NullFrame
       /\ transport = "setup"
       /\ live = 1
       /\ LastEvent.cmd \in {"auth", "name"} => cacRes = NoRet
  /\ (LastEvent.ev = "closed" /\ LastEvent.cmd \in {"auth", "name"}
        /\ pc # AfterReply[LastEvent.cmd]) =>
       /\ response = NullFrame
       /\ cacRes = RetErr(NullVerdict[LastEvent.cmd])
       /\ cacRes.err.kind \notin {"IO", "Decode"}
  /\ LastEvent.ev \in {"send_err", "recv_err"} =>
       /\ transport = "dropped"
       /\ live = 0
       /\ pc # AfterReply[LastEvent.cmd]
       /\ LastEvent.cmd \in {"auth", "name"} =>
            /\ cacRes.tag = "Err"
            /\ cacRes.err.kind \in {"IO", "Decode"}
            /\ cacRes.err.kind = "Decode" => LastEvent.ev = "recv_err"
            /\ steps[LastEvent.cmd] = "fail"
       /\ LastEvent.cmd = "nodes" => outcome[idx - 1].nodes = "failed"

\* AUTH was written, the peer closed the stream, and request_response has
\* handed Null and the transport to authenticate.
C11_Witness ==
  /\ top = "cac"
  /\ pc = "auth_reply"
  /\ wire = <<Event("send", "auth", NoFrame), Event("closed", "auth", NoFrame)>>
  /\ response = NullFrame
  /\ transport = "setup"

\* ------------------------------------------------------ C12

\* The frames the transport holds, in the order it will have put them on the
\* network: those already there, then those still in the sink's buffer.
Written == net \o sinkBuf

\* A sequence of command ids in the order of the calls that wrote them.
InCallOrder(s) == \A i, j \in DOMAIN s : i < j => s[i] < s[j]

\* The flushing branch has written and flushed the current command.
Flushed == wpc \in {"sent", "ret"} /\ should_flush /\ sinkRes = "ok"

\* C12: frames reach the transport in the order of the write_command calls,
\* whatever mix of feed and flush branches wrote them: no frame of a later
\* call is ahead of a frame of an earlier call, on the network or in the
\* buffer, and a successful flush leaves nothing buffered, the flushing
\* command's frame being the last one on the network.
C12_CallOrder ==
  /\ InCallOrder(Written)
  /\ Len(Written) <= calls
  /\ Flushed =>
       /\ sinkBuf = <<>>
       /\ net # <<>>
       /\ net[Len(net)] = command.id

\* Two commands fed, then a third one flushed: all three on the network in
\* call order.
C12_Witness ==
  /\ Flushed
  /\ wpc = "sent"
  /\ net = <<1, 2, 3>>

\* ------------------------------------------------------ C13

\* Between calls of write_command, every call so far having returned Ok.
AllSucceeded == ~failed /\ wpc \in {"idle", "ret"}

\* C13: after calls of write_command that all succeeded, the feed counter
\* is the number of frames written to the sink's buffer since the last
\* flush: 0 right after a flushing call, and above 0 exactly when a fed
\* frame is still unflushed.
C13_FeedCountIsBuffered ==
  AllSucceeded =>
    /\ feed_count = Len(sinkBuf)
    /\ Flushed => feed_count = 0
    /\ feed_count > 0 <=> sinkBuf # <<>>

\* A flushing call followed by two feeding calls, all successful: two frames
\* buffered and a feed counter of 2.
C13_Witness ==
  /\ AllSucceeded
  /\ wpc = "ret"
  /\ net = <<1>>
  /\ sinkBuf = <<2, 3>>
  /\ feed_count = 2

\* ------------------------------------------------------ C14

\* Commands written to the transport whose reply has not been observed.
Pending == Len(Written) - observed

\* C14: with a response consumer that decrements the in-flight counter once
\* per reply it observes, the counter never goes below zero, no reply being
\* accounted for before its command's increment, and between calls of
\* write_command that all succeeded it is the number of commands written
\* whose reply has not been observed.
C14_InFlightIsPending ==
  /\ in_flight >= 0
  /\ AllSucceeded => in_flight = Pending

\* ------------------------------------------------------ C15

\* How often the write of request c was attempted on the current transport.
Attempts(c) ==
  Cardinality({i \in DOMAIN wire : wire[i].cmd = c /\ wire[i].ev \in {"send", "send_err"}})

\* What the wire saw of request c.
Saw(ev, c) == \E i \in DOMAIN wire : wire[i].ev = ev /\ wire[i].cmd = c

\* The AUTH step failed: its write or read failed, or its reply was not the
\* simple string OK, or the request could not be converted.
AuthFailed ==
  \/ Saw("send_err", "auth")
  \/ Saw("recv_err", "auth")
  \/ Replies("auth") # {} /\ ~IsOk(ReplyTo("auth"))
  \/ steps.auth = "fail"

\* e is the error of the round trip of request c, as the wire saw it.
IsStepError(c, e) ==
  IF Replies(c) # {}
    THEN e = (IF c = "auth" THEN AuthCheck(ReplyTo(c)) ELSE NameCheck(ReplyTo(c)))
    ELSE IF Saw("send_err", c)
      THEN e = RedisError("IO", <<"send">>)
      ELSE IF Saw("recv_err", c)
        THEN e \in {RedisError("IO", <<"read">>), RedisError("Decode", <<"read">>)}
        ELSE e = RedisError("InvalidCommand", <<"to_frame">>)

\* e is the error of the first step of the setup sequence that failed.
IsFirstFailure(e) ==
  IF steps.socket = "fail"
    THEN e = RedisError("IO", <<"connect">>) /\ wire = <<>>
    ELSE IF steps.tls = "fail"
      THEN e.kind = "Tls" /\ wire = <<>>
      ELSE IF AuthFailed
        THEN IsStepError("auth", e) /\ e # NoErr
        ELSE IsStepError("name", e) /\ e # NoErr

\* C15: connection setup neither retries nor goes on after a failure: each
\* setup request is written at most once per connection attempt, after a
\* failed AUTH step no CLIENT SETNAME is written and nothing after the
\* failing step runs, and the error create_authenticated_connection returns
\* is the error of the first step that failed.
C15_NoRetryNoStepAfterFailure ==
  /\ \A c \in {"auth", "name"} : Attempts(c) <= 1 /\ Cardinality(Replies(c)) <= 1
  /\ AuthFailed => (\A i \in DOMAIN wire : wire[i].cmd # "name")
  /\ (AuthFailed /\ pc # "auth_reply") => (steps.name = "none" /\ steps.flag = "none")
  /\ \A s \in {"socket", "tls", "auth", "name"} :
       steps[s] = "fail" => (steps.flag = "none" /\ cacRes.tag = "Err" /\ transport # "setup")
  /\ cacRes.tag = "Err" => IsFirstFailure(cacRes.err)
  /\ (top = "cac" /\ pc = "done" /\ ret.tag = "Err") =>
       /\ ret = cacRes
       /\ IsFirstFailure(ret.err)

\* AUTH was answered by a simple string other than OK: the Auth error went
\* back to the caller and CLIENT SETNAME was never written.
C15_Witness ==
  /\ top = "cac"
  /\ pc = "done"
  /\ Replies("auth") # {}
  /\ ReplyTo("auth") = SimpleString("WRONGPASS")
  /\ ret = RetErr(AuthCheck(SimpleString("WRONGPASS")))
  /\ Len(wire) = 2

\* ------------------------------------------------------ C16

\* The setup sequence is running.
InSetup == pc \in {"tls_connect", "authenticate", "rr_send", "rr_recv", "auth_reply",
                   "name_reply", "set_state", "cac_ret"}

\* write_command has run.
Wrote == calls > 0 \/ wpc # "idle"

\* C16: a transport is either being set up, unsplit and held by the one
\* setup step that is running, or in steady state, split: while it is being
\* set up no command is written to it, it reaches the caller, and is split
\* and written to, only after the whole setup sequence has succeeded, and
\* when the setup fails no transport is handed out.
C16_SetupThenSteady ==
  /\ live <= 1
  /\ transport = "setup" => (InSetup /\ live = 1 /\ ret = NoRet /\ ~Wrote)
  /\ transport \in {"caller", "split"} =>
       /\ SetupSucceeded
       /\ steps.flag = "set"
       /\ ret.tag = "Ok"
       /\ pc = "done"
  /\ Wrote => transport = "split"
  /\ (cacRes.tag = "Err" \/ ret.tag = "Err") =>
       /\ transport \in {"none", "dropped"}
       /\ live = 0
       /\ ~Wrote

\* After AUTH and CLIENT SETNAME were both answered OK the transport was
\* handed out and split, and a command has been written and flushed on it.
C16_Witness ==
  /\ key = "secret"
  /\ transport = "split"
  /\ SetupSucceeded
  /\ wpc = "sent"
  /\ net = <<1>>

\* ------------------------------------------------------ C17

\* Connection attempts read_cluster_nodes has made so far.
Opened == {i \in Seeds : connects[i] > 0}

\* C17: the connections cluster discovery opens are disposable: at most one
\* is open at any time, the connection to a seed is dropped before the next
\* seed is tried, and when read_cluster_nodes returns, with a cache or with
\* an error, none is open and none has gone to the caller.
C17_DisposableConnections ==
  top = "rcn" =>
    /\ live \in {0, 1}
    /\ live = 1 <=> transport = "setup"
    /\ transport # "caller"
    /\ pc \in {"rcn_loop", "rcs_resolve", "connect"} => live = 0
    /\ DiscoveryDone => (live = 0 /\ transport \in {"none", "dropped"})

\* Two seeds were connected to, one after the other; the second one's cache
\* was returned and its connection is gone.
C17_Witness ==
  /\ DiscoveryDone
  /\ ret.tag = "Ok"
  /\ Opened = {1, 2}
  /\ queries[1] = 1
  /\ transport = "dropped"
  /\ live = 0

\* ------------------------------------------------------ C18

\* The seeds whose connection authenticated: read_cluster_state sends
\* CLUSTER NODES to exactly those.
Authenticated == {i \in Seeds : queries[i] > 0}

\* C18: cluster discovery sets the connection-state flag as a side effect:
\* once a seed's connection has authenticated the flag is Connected, and it
\* stays Connected when that seed's query fails and when read_cluster_nodes
\* returns the aggregate error; discovery leaves the flag as it found it
\* only when no seed got through authentication.
C18_DiscoverySetsConnected ==
  top = "rcn" =>
    /\ Authenticated # {} => state = "Connected"
    /\ stateSets > 0 => state = "Connected"
    /\ stateSets = 0 => (state = state0 /\ Authenticated = {})
    /\ (rr = "nodes" /\ pc \in {"rr_send", "rr_recv", "nodes_reply"}) =>
         (SetupSucceeded /\ state = "Connected")
    /\ DiscoveryDone =>
         /\ stateSets = Cardinality(Authenticated)
         /\ state = IF Authenticated = {} THEN state0 ELSE "Connected"

\* A client that was Disconnected: its only seed authenticated and then
\* answered CLUSTER NODES with an error; read_cluster_nodes returned the
\* aggregate error and the flag says Connected.
C18_Witness ==
  /\ DiscoveryDone
  /\ state0 = "Disconnected"
  /\ known_nodes = <<"A">>
  /\ Authenticated = {1}
  /\ ret = RetErr(UnreachableError)
  /\ state = "Connected"

\* ------------------------------------------------------ C19

\* The current call of write_command was given a command that has no frame.
NoFrameForCommand == wpc = "ret" /\ calls > 0 /\ ~pre.command.convertible

\* The current request of request_response had no frame.
NoFrameForRequest ==
  cacRes = RetErr(RedisError("InvalidCommand", <<"to_frame">>)) /\ rr \in {"auth", "name"}

\* C19: when the command cannot be converted to a frame, write_command
\* returns that error with nothing else touched: the command's attempt
\* counter and network-start timestamp, the feed counter and the in-flight
\* counter are as before the call, the sink was not used and holds no frame
\* of the command.  Likewise request_response writes nothing and reads
\* nothing when the conversion of its request fails.
C19_NoFrameNoEffect ==
  /\ NoFrameForCommand =>
       /\ wret = RedisError("InvalidCommand", <<"to_frame">>)
       /\ command = pre.command
       /\ command.attempted = pre.command.attempted
       /\ command.network_start = pre.command.network_start
       /\ feed_count = pre.counters.feed_count
       /\ in_flight = pre.counters.in_flight
       /\ sinkRes = "none"
       /\ \A i \in DOMAIN Written : Written[i] # command.id
  /\ NoFrameForRequest =>
       /\ \A i \in DOMAIN wire : wire[i].cmd # rr
       /\ Attempts(rr) = 0
       /\ Replies(rr) = {}
       /\ response = (IF Replies("auth") = {} THEN NoFrame ELSE ReplyTo("auth"))

\* The second command, fresh and with no frame, came back with the
\* conversion error while the first one sits in the sink's buffer.
C19_Witness ==
  /\ NoFrameForCommand
  /\ calls = 2
  /\ command.attempted = 0
  /\ command.network_start = "None"
  /\ sinkBuf = <<1>>
  /\ feed_count = 1
  /\ in_flight = 1

\* ------------------------------------------------------ C20

\* No seed is visited twice: the seeds tried are an initial part of the
\* seed list, in its order.
NoRevisit ==
  /\ Len(tried) <= Len(known_nodes)
  /\ \A i \in DOMAIN tried : tried[i] = known_nodes[i]

\* C20: provided every awaited operation completes, read_cluster_nodes
\* returns, for every seed list; it performs at most one resolve, one
\* connection attempt and one CLUSTER NODES request per seed, and visits no
\* seed twice.
C20_DiscoveryTerminates ==
  /\ [](\A i \in Seeds : resolves[i] <= 1 /\ connects[i] <= 1 /\ queries[i] <= 1)
  /\ []NoRevisit
  /\ (top = "rcn") ~> DiscoveryDone

\* read_cluster_nodes has returned after three seeds: the first two were
\* connected to and queried without yielding a cache, the third did not
\* resolve.
C20_Witness ==
  /\ DiscoveryDone
  /\ Len(known_nodes) = 3
  /\ tried = known_nodes
  /\ resolves = <<1, 1, 1>>
  /\ connects = <<1, 1, 0>>
  /\ queries = <<1, 1, 0>>

====
